---- MODULE Spec2Model ----
(***************************************************************************)
(* The template engine of bot-dashboard.py: compile_template scans the     *)
(* template line by line, keeps a block stack and emits the lines of a     *)
(* Python function _render; wrapper executes that function against the     *)
(* caller's keyword arguments.  Before that the script turns the builds    *)
(* the buildbot API returned for a bot into the bot's status                *)
(* (get_bot_status), which one row of the dashboard template shows.        *)
(*                                                                         *)
(* A string is a sequence of one-character strings.  Positions inside a    *)
(* line are 0-based, as in the source.                                     *)
(***************************************************************************)
EXTENDS Integers, Sequences, FiniteSets, TLC

VARIABLES
    lines,     \* template_str.splitlines()
    line_no,   \* the number of lines compile_template has consumed
    out,       \* the generated lines
    indent,    \* the depth the next line is emitted at
    stack,     \* the block stack
    cstate,    \* scan, compiled (wrapper was returned) or failed (an exception)
    error,     \* the exception compile_template raised
    calls,     \* the calls of wrapper
    threads,   \* whether the caller renders from several threads at once
    builds_data,  \* get_bot_builds(bot)['builds']: at most two builds, newest first
    bot_status,   \* the BotStatus of the bot, once get_bot_status has returned
    row           \* what the template's row shows for the bot, once rendered

template_vars == <<lines, line_no, out, indent, stack, cstate, error, calls, threads>>

status_vars == <<builds_data, bot_status, row>>

vars == <<lines, line_no, out, indent, stack, cstate, error, calls, threads,
          builds_data, bot_status, row>>

(***************************************************************************)
(* Bounds of the model.                                                    *)
(***************************************************************************)
\* the longest template built freely from Vocabulary
MaxLines == 3

\* the longest list a caller passes
MaxList == 2

\* limit=2 of the builds query
MaxBuilds == 2

\* the largest result code of a build: 0 and 1 pass, 2 fails, above is other
MaxResult == 3

\* the calls of wrapper that may be in progress together
CallIds == {1, 2}

MainThread == CHOOSE c \in CallIds : \A d \in CallIds : c <= d

(***************************************************************************)
(* str methods used by compile_template.                                   *)
(***************************************************************************)
\* s[i:j], 0-based and half-open
Slice(s, i, j) == SubSeq(s, i + 1, j)

\* s.find(cc, start) for the two-character marker cc = c c
find(s, c, start) ==
    LET hits == {i \in start .. (Len(s) - 2) : s[i + 1] = c /\ s[i + 2] = c}
    IN IF hits = {} THEN -1 ELSE CHOOSE i \in hits : \A j \in hits : i <= j

\* s.startswith("$")
startswith(s, c) == Len(s) > 0 /\ s[1] = c

RECURSIVE lstrip(_)
lstrip(s) == IF Len(s) > 0 /\ s[1] = " " THEN lstrip(Tail(s)) ELSE s

RECURSIVE rstrip(_)
rstrip(s) ==
    IF Len(s) > 0 /\ s[Len(s)] = " " THEN rstrip(SubSeq(s, 1, Len(s) - 1)) ELSE s

strip(s) == rstrip(lstrip(s))

\* s.partition(" ")[0]
partition0(s) ==
    LET sp == {i \in 1 .. Len(s) : s[i] = " "}
    IN IF sp = {} THEN s
       ELSE SubSeq(s, 1, (CHOOSE i \in sp : \A j \in sp : i <= j) - 1)

kw_if == <<"i", "f">>
kw_for == <<"f", "o", "r">>
kw_elif == <<"e", "l", "i", "f">>
kw_else == <<"e", "l", "s", "e">>
kw_endif == <<"e", "n", "d", "i", "f">>
kw_endfor == <<"e", "n", "d", "f", "o", "r">>

(***************************************************************************)
(* The lines compile_template emits.  A line of the generated function is  *)
(* a record: ind is the number of four-space indents, kind tells which     *)
(* emit_line call wrote it, text is the part taken from the template and   *)
(* at is line_no when it was emitted (0 for the prologue and epilogue).    *)
(*   def    def _render():                                                 *)
(*   init   out = []                                                       *)
(*   hdr    <pycmd>:                                                       *)
(*   raw    <pycmd>                                                        *)
(*   lit    out.append(<repr(text)>)                                       *)
(*   litnl  out.append(<repr(text)> '\n')                                  *)
(*   expr   out.append(str(<text>))                                        *)
(*   ret    return "".join(out)                                            *)
(***************************************************************************)
emit_line(ind, kind, text, at) == [ind |-> ind, kind |-> kind, text |-> text, at |-> at]

\* An exception of compile_template: its type, the line number its message
\* starts with ("Line <k>: ...", 0 when the message has none), the fixed part
\* of the message and the text put into it.
NoError == [type |-> "", line |-> 0, msg |-> "", arg |-> <<>>]

ValueError(k, msg, arg) == [type |-> "ValueError", line |-> k, msg |-> msg, arg |-> arg]

\* list.pop() and list[-1] of an empty list: the message has no line number
IndexError(msg) == [type |-> "IndexError", line |-> 0, msg |-> msg, arg |-> <<>>]

\* scan_text without the test expr_start != pos: the literal before a span
\* is emitted also when it is empty
RECURSIVE scan_text_always(_, _, _, _)
scan_text_always(line, pos, ind, at) ==
    IF pos > Len(line) THEN [code |-> <<>>, bad |-> FALSE]
    ELSE LET expr_start == find(line, "{", pos)
         IN IF expr_start = -1
            THEN [code |-> <<emit_line(ind, "litnl", Slice(line, pos, Len(line)), at)>>,
                  bad |-> FALSE]
            ELSE LET pre == <<emit_line(ind, "lit", Slice(line, pos, expr_start), at)>>
                     expr_end == find(line, "}", expr_start)
                 IN IF expr_end = -1
                    THEN [code |-> pre, bad |-> TRUE]
                    ELSE LET rest == scan_text_always(line, expr_end + 2, ind, at)
                         IN [code |-> pre
                                      \o <<emit_line(ind, "expr",
                                                     Slice(line, expr_start + 2, expr_end), at)>>
                                      \o rest.code,
                             bad |-> rest.bad]

\* the while loop over one text line: the emitted lines and whether the
\* matching end marker was missing
RECURSIVE scan_text(_, _, _, _)
scan_text(line, pos, ind, at) ==
    IF pos > Len(line) THEN [code |-> <<>>, bad |-> FALSE]
    ELSE LET expr_start == find(line, "{", pos)
         IN IF expr_start = -1
            THEN [code |-> <<emit_line(ind, "litnl", Slice(line, pos, Len(line)), at)>>,
                  bad |-> FALSE]
            ELSE LET pre == IF expr_start # pos
                            THEN <<emit_line(ind, "lit", Slice(line, pos, expr_start), at)>>
                            ELSE <<>>
                     expr_end == find(line, "}", expr_start)
                 IN IF expr_end = -1
                    THEN [code |-> pre, bad |-> TRUE]
                    ELSE LET rest == scan_text(line, expr_end + 2, ind, at)
                         IN [code |-> pre
                                      \o <<emit_line(ind, "expr",
                                                     Slice(line, expr_start + 2, expr_end), at)>>
                                      \o rest.code,
                             bad |-> rest.bad]

(***************************************************************************)
(* The fragment of Python the generated function is written in.  compile() *)
(* and exec() are the interpreter's; the model covers the statements       *)
(* compile_template can emit from the lines of Vocabulary: names, decimal  *)
(* numbers, a + b, an assignment to a name, if / elif / else and for.      *)
(***************************************************************************)
IdentChars ==
    {"a", "b", "c", "d", "e", "f", "i", "l", "n", "o", "r", "s", "t", "u", "x", "y",
     "_", "0", "1", "2", "3", "4", "5", "6", "7", "8", "9"}

DigitChars == {"0", "1", "2", "3", "4", "5", "6", "7", "8", "9"}

\* length of the identifier or number at the head of s
RECURSIVE run(_)
run(s) == IF Len(s) > 0 /\ s[1] \in IdentChars THEN 1 + run(Tail(s)) ELSE 0

\* the tokenizer: names and numbers are maximal runs, anything else is one
\* character, blanks separate
RECURSIVE tokens(_)
tokens(s) ==
    IF Len(s) = 0 THEN <<>>
    ELSE IF s[1] = " " THEN tokens(Tail(s))
    ELSE IF s[1] \in IdentChars
         THEN <<SubSeq(s, 1, run(s))>> \o tokens(SubSeq(s, run(s) + 1, Len(s)))
         ELSE <<<<s[1]>>>> \o tokens(Tail(s))

PyKeywords == {kw_if, kw_for, kw_elif, kw_else, <<"i", "n">>, <<"d", "e", "f">>}

IsNumber(t) == Len(t) > 0 /\ \A i \in 1 .. Len(t) : t[i] \in DigitChars

IsName(t) ==
    /\ Len(t) > 0
    /\ \A i \in 1 .. Len(t) : t[i] \in IdentChars
    /\ t[1] \notin DigitChars
    /\ t \notin PyKeywords

IsAtom(t) == IsNumber(t) \/ IsName(t)

\* an expression: atom, or atom + atom
IsExpr(ts) ==
    \/ Len(ts) = 1 /\ IsAtom(ts[1])
    \/ Len(ts) = 3 /\ IsAtom(ts[1]) /\ ts[2] = <<"+">> /\ IsAtom(ts[3])

IsAssign(ts) == Len(ts) >= 3 /\ IsName(ts[1]) /\ ts[2] = <<"=">> /\ IsExpr(SubSeq(ts, 3, Len(ts)))

\* the keyword of a header line, as Python reads it
HdrKw(c) == IF c.kind = "hdr" /\ tokens(c.text) # <<>> THEN tokens(c.text)[1] ELSE <<>>

\* a line that is empty to Python's tokenizer: it is no statement
IsBlank(c) == c.kind = "raw" /\ tokens(c.text) = <<>>

IsCompound(c) == c.kind \in {"def", "hdr"}

\* one line is well formed on its own
LineOK(c) ==
    LET ts == tokens(c.text)
    IN CASE c.kind = "hdr" ->
              \/ HdrKw(c) \in {kw_if, kw_elif} /\ IsExpr(Tail(ts))
              \/ HdrKw(c) = kw_else /\ Len(ts) = 1
              \/ /\ HdrKw(c) = kw_for
                 /\ Len(ts) >= 4
                 /\ IsName(ts[2])
                 /\ ts[3] = <<"i", "n">>
                 /\ IsExpr(SubSeq(ts, 4, Len(ts)))
         [] c.kind = "raw" -> ts = <<>> \/ IsAssign(ts) \/ IsExpr(ts)
         [] c.kind = "expr" -> ts = <<>> \/ IsExpr(ts)
         [] OTHER -> TRUE

\* compile(py_code, "<string>", "exec") accepts the lines: every line is
\* well formed, every compound statement is followed by an indented block,
\* nothing else is, and elif / else continue an if or elif of their own
\* depth.  (compile_template emits no else after a for.)
PyCompiles(code) ==
    LET nb == SelectSeq(code, LAMBDA c : ~IsBlank(c))
        n == Len(nb)
    IN /\ \A i \in 1 .. n : LineOK(nb[i])
       /\ n > 0 /\ ~IsCompound(nb[n])
       /\ \A i \in 1 .. (n - 1) :
             IF IsCompound(nb[i]) THEN nb[i + 1].ind = nb[i].ind + 1
             ELSE nb[i + 1].ind <= nb[i].ind
       /\ \A i \in 1 .. n :
             HdrKw(nb[i]) \in {kw_elif, kw_else} =>
                LET prev == {j \in 1 .. (i - 1) : nb[j].ind <= nb[i].ind}
                IN /\ prev # {}
                   /\ LET p == CHOOSE j \in prev : \A k \in prev : k <= j
                      IN nb[p].ind = nb[i].ind /\ HdrKw(nb[p]) \in {kw_if, kw_elif}

(***************************************************************************)
(* Values: int, bool and list of int, in one record shape.                 *)
(***************************************************************************)
IntV(n) == [t |-> "int", i |-> n, l |-> <<>>]

BoolV(b) == [t |-> "bool", i |-> IF b THEN 1 ELSE 0, l |-> <<>>]

ListV(l) == [t |-> "list", i |-> 0, l |-> l]

\* the function object the def statement binds to _render
FuncV == [t |-> "function", i |-> 0, l |-> <<>>]

\* the list object bound to the local name out
OutV == [t |-> "outlist", i |-> 0, l |-> <<>>]

NoneV == [t |-> "none", i |-> 0, l |-> <<>>]

\* bool(v)
Truthy(v) ==
    CASE v.t \in {"int", "bool"} -> v.i # 0
      [] v.t = "list" -> v.l # <<>>
      [] v.t = "none" -> FALSE
      [] OTHER -> TRUE

DigitOf(d) == <<"0", "1", "2", "3", "4", "5", "6", "7", "8", "9">>[d + 1]

RECURSIVE Decimal(_)
Decimal(n) == IF n < 10 THEN <<DigitOf(n)>> ELSE Decimal(n \div 10) \o <<DigitOf(n % 10)>>

RECURSIVE NumberValue(_)
NumberValue(t) ==
    IF Len(t) = 0 THEN 0
    ELSE 10 * NumberValue(SubSeq(t, 1, Len(t) - 1))
         + (CHOOSE d \in 0 .. 9 : DigitOf(d) = t[Len(t)])

RECURSIVE JoinInts(_)
JoinInts(l) ==
    IF Len(l) = 0 THEN <<>>
    ELSE IF Len(l) = 1 THEN Decimal(l[1])
    ELSE Decimal(l[1]) \o <<",", " ">> \o JoinInts(Tail(l))

\* str(v)
str(v) ==
    CASE v.t = "int" -> IF v.i < 0 THEN <<"-">> \o Decimal(-v.i) ELSE Decimal(v.i)
      [] v.t = "bool" -> IF v.i = 1 THEN <<"T", "r", "u", "e">> ELSE <<"F", "a", "l", "s", "e">>
      [] v.t = "list" -> <<"[">> \o JoinInts(v.l) \o <<"]">>
      [] v.t = "none" -> <<"N", "o", "n", "e">>
      [] v.t = "function" -> <<"<", "f", "u", "n", "c", "t", "i", "o", "n", ">">>
      [] OTHER -> <<"[", ".", ".", ".", "]">>

\* repr(s) of a str: double quotes when s holds ' and no ", single quotes
\* otherwise; backslash, newline and the quote used are escaped
Quote(s) ==
    IF (\E i \in 1 .. Len(s) : s[i] = "'") /\ ~(\E i \in 1 .. Len(s) : s[i] = "\"")
    THEN "\"" ELSE "'"

RECURSIVE Escaped(_, _)
Escaped(s, q) ==
    IF Len(s) = 0 THEN <<>>
    ELSE (CASE s[1] = "\\" -> <<"\\", "\\">>
            [] s[1] = "\n" -> <<"\\", "n">>
            [] s[1] = q -> <<"\\", q>>
            [] OTHER -> <<s[1]>>) \o Escaped(Tail(s), q)

repr(s) == <<Quote(s)>> \o Escaped(s, Quote(s)) \o <<Quote(s)>>

RECURSIVE JoinReprs(_)
JoinReprs(l) ==
    IF Len(l) = 0 THEN <<>>
    ELSE IF Len(l) = 1 THEN repr(l[1])
    ELSE repr(l[1]) \o <<",", " ">> \o JoinReprs(Tail(l))

\* str(out): the list of the strings appended so far
str_out(buf) == <<"[">> \o JoinReprs(buf) \o <<"]">>

Ok(v) == [exc |-> "", v |-> v]

Raise(e) == [exc |-> e, v |-> NoneV]

n_out == <<"o", "u", "t">>

n_render == <<"_", "r", "e", "n", "d", "e", "r">>

\* the names _render assigns: they are its locals everywhere in its body
LocalNames(code) ==
    {n_out}
    \cup {tokens(code[i].text)[2] : i \in {j \in 1 .. Len(code) : HdrKw(code[j]) = kw_for}}
    \cup {tokens(code[i].text)[1] :
            i \in {j \in 1 .. Len(code) : code[j].kind = "raw" /\ IsAssign(tokens(code[j].text))}}

\* a name, read inside _render
Lookup(name, loc, glob, locals) ==
    IF name \in locals
    THEN IF name \in DOMAIN loc THEN Ok(loc[name]) ELSE Raise("UnboundLocalError")
    ELSE IF name \in DOMAIN glob THEN Ok(glob[name]) ELSE Raise("NameError")

EvalAtom(t, loc, glob, locals) ==
    IF IsNumber(t) THEN Ok(IntV(NumberValue(t))) ELSE Lookup(t, loc, glob, locals)

\* a + b
Add(a, b) ==
    IF a.t \in {"int", "bool"} /\ b.t \in {"int", "bool"} THEN Ok(IntV(a.i + b.i))
    ELSE IF a.t = "list" /\ b.t = "list" THEN Ok(ListV(a.l \o b.l))
    ELSE Raise("TypeError")

Eval(ts, loc, glob, locals) ==
    IF Len(ts) = 1 THEN EvalAtom(ts[1], loc, glob, locals)
    ELSE LET a == EvalAtom(ts[1], loc, glob, locals)
             b == EvalAtom(ts[3], loc, glob, locals)
         IN IF a.exc # "" THEN a
            ELSE IF b.exc # "" THEN b
            ELSE Add(a.v, b.v)

(***************************************************************************)
(* compile_template, one template line at a time.                          *)
(***************************************************************************)
\* keyword[3:]
drop3(s) == SubSeq(s, 4, Len(s))

Emitted(code, ind, stk, err) == [code |-> code, indent |-> ind, stack |-> stk, error |-> err]

\* line[1:].strip() and its first word
pycmd_of(line) == strip(Tail(line))

keyword_of(line) == partition0(pycmd_of(line))

\* open_block without indent += 1
open_block_flat(keyword, pycmd, k, ind, stk) ==
    Emitted(<<emit_line(ind, "hdr", pycmd, k)>>, ind, Append(stk, keyword), NoError)

\* $if and $for
open_block(keyword, pycmd, k, ind, stk) ==
    Emitted(<<emit_line(ind, "hdr", pycmd, k)>>, ind + 1, Append(stk, keyword), NoError)

\* next_branch with the stack popped, as if the branch closed the block
next_branch_pops(keyword, pycmd, k, ind, stk) ==
    IF Len(stk) = 0 THEN Emitted(<<>>, ind, stk, IndexError("list index out of range"))
    ELSE IF stk[Len(stk)] # kw_if
    THEN Emitted(<<>>, ind, stk, ValueError(k, "Incorrectly nested", keyword))
    ELSE Emitted(<<emit_line(ind - 1, "hdr", pycmd, k)>>, ind, SubSeq(stk, 1, Len(stk) - 1),
                 NoError)

\* $elif and $else
next_branch(keyword, pycmd, k, ind, stk) ==
    IF Len(stk) = 0 THEN Emitted(<<>>, ind, stk, IndexError("list index out of range"))
    ELSE IF stk[Len(stk)] # kw_if
    THEN Emitted(<<>>, ind, stk, ValueError(k, "Incorrectly nested", keyword))
    ELSE Emitted(<<emit_line(ind - 1, "hdr", pycmd, k)>>, ind, stk, NoError)

\* close_block without the comparison of the popped kind with the keyword
close_block_any(keyword, pycmd, k, ind, stk) ==
    IF Len(stk) = 0 THEN Emitted(<<>>, ind, stk, IndexError("pop from empty list"))
    ELSE IF pycmd # keyword
    THEN Emitted(<<>>, ind, SubSeq(stk, 1, Len(stk) - 1),
                 ValueError(k, "Unexpected text after", keyword))
    ELSE Emitted(<<>>, ind - 1, SubSeq(stk, 1, Len(stk) - 1), NoError)

\* close_block that takes no notice of the text after the keyword
close_block_lenient(keyword, pycmd, k, ind, stk) ==
    IF Len(stk) = 0 THEN Emitted(<<>>, ind, stk, IndexError("pop from empty list"))
    ELSE LET expected == stk[Len(stk)]
             popped == SubSeq(stk, 1, Len(stk) - 1)
         IN IF expected # drop3(keyword)
            THEN Emitted(<<>>, ind, popped, ValueError(k, "Expected end", expected))
            ELSE Emitted(<<>>, ind - 1, popped, NoError)

\* $endif and $endfor
close_block(keyword, pycmd, k, ind, stk) ==
    IF Len(stk) = 0 THEN Emitted(<<>>, ind, stk, IndexError("pop from empty list"))
    ELSE LET expected == stk[Len(stk)]
             popped == SubSeq(stk, 1, Len(stk) - 1)
         IN IF expected # drop3(keyword)
            THEN Emitted(<<>>, ind, popped, ValueError(k, "Expected end", expected))
            ELSE IF pycmd # keyword
            THEN Emitted(<<>>, ind, popped, ValueError(k, "Unexpected text after", keyword))
            ELSE Emitted(<<>>, ind - 1, popped, NoError)

\* the body of the for loop for a directive line: what it emits, and the
\* indent, the stack and the exception it leaves
directive(line, k, ind, stk) ==
    LET pycmd == pycmd_of(line)
        keyword == keyword_of(line)
    IN CASE keyword \in {kw_if, kw_for} -> open_block(keyword, pycmd, k, ind, stk)
         [] keyword \in {kw_elif, kw_else} -> next_branch(keyword, pycmd, k, ind, stk)
         [] keyword \in {kw_endif, kw_endfor} -> close_block(keyword, pycmd, k, ind, stk)
         [] OTHER -> Emitted(<<emit_line(ind, "raw", pycmd, k)>>, ind, stk, NoError)

\* text_line that lets a missing end marker pass
text_line_lenient(line, k, ind, stk) == Emitted(scan_text(line, 0, ind, k).code, ind, stk, NoError)

\* the body of the for loop for a text line
text_line(line, k, ind, stk) ==
    LET r == scan_text(line, 0, ind, k)
    IN Emitted(r.code, ind, stk,
               IF r.bad THEN ValueError(k, "Couldn't find matching }", <<>>) ELSE NoError)

compile_line(line, k, ind, stk) ==
    IF startswith(line, "$") THEN directive(line, k, ind, stk) ELSE text_line(line, k, ind, stk)

\* finish that reports the outermost open block instead of the innermost
finish_outermost(code, ind, stk) ==
    IF Len(stk) # 0 THEN Emitted(code, ind, stk, ValueError(0, "Unclosed", stk[1]))
    ELSE LET all == code \o <<emit_line(ind, "ret", <<>>, 0)>>
         IN Emitted(all, ind, stk,
                    IF PyCompiles(all) THEN NoError
                    ELSE [type |-> "SyntaxError", line |-> 0, msg |-> "invalid syntax",
                          arg |-> <<>>])

\* what is left after the loop: the unclosed check, the return line and
\* compile()
finish(code, ind, stk) ==
    IF Len(stk) # 0 THEN Emitted(code, ind, stk, ValueError(0, "Unclosed", stk[Len(stk)]))
    ELSE LET all == code \o <<emit_line(ind, "ret", <<>>, 0)>>
         IN Emitted(all, ind, stk,
                    IF PyCompiles(all) THEN NoError
                    ELSE [type |-> "SyntaxError", line |-> 0, msg |-> "invalid syntax",
                          arg |-> <<>>])

(***************************************************************************)
(* wrapper: exec(compiled_code, kwargs_as_globals) binds _render in the    *)
(* call's own dictionary, and _render() runs the generated lines.  One     *)
(* call is a record: st (idle, run, done, raised), kw (the caller's        *)
(* keyword arguments), glob (the globals dictionary), loc (the locals of   *)
(* _render), pc (the generated line to run next), iters (the iterators of  *)
(* the for statements being run, innermost last), buf (the list object     *)
(* bound to out), exc (the exception that ended it), res (the string it    *)
(* returned) and trace (the lines it ran, each with the locals before it). *)
(***************************************************************************)
EmptyEnv == [n \in {} |-> NoneV]

Bind(env, name, v) == (name :> v) @@ env

Idle ==
    [st |-> "idle", kw |-> EmptyEnv, glob |-> EmptyEnv, loc |-> EmptyEnv, pc |-> 0,
     iters |-> <<>>, buf |-> <<>>, exc |-> "", res |-> <<>>, trace |-> <<>>]

\* kwargs_as_globals with one dictionary for all calls: the names of a call
\* in progress are seen by the next
kwargs_shared(kw, others) ==
    LET running == {d \in DOMAIN others : others[d].st = "run"}
    IN IF running = {} THEN Bind(kw, n_render, FuncV)
       ELSE Bind(kw @@ others[CHOOSE d \in running : TRUE].glob, n_render, FuncV)

\* the dictionary exec() runs the def statement in: the keyword arguments of
\* this call, with _render bound by the def
kwargs_as_globals(kw, others) == Bind(kw, n_render, FuncV)

\* the first line after h that is no deeper than d
NextAtOrAbove(code, h, d) ==
    CHOOSE k \in (h + 1) .. Len(code) :
        /\ code[k].ind <= d
        /\ \A j \in (h + 1) .. (k - 1) : code[j].ind > d

\* the header of the block that a line of depth d at i lies in
Enclosing(code, i, d) ==
    CHOOSE h \in 1 .. i : code[h].ind = d - 1 /\ \A j \in (h + 1) .. i : code[j].ind >= d

\* ChainEnd that ends the if statement at the end of the branch: the clauses
\* after a branch that was taken are tried too
ChainEnd_branch(code, h, d) == NextAtOrAbove(code, h, d) - 1

\* the last line of the if statement that the clause at h (depth d) is part of
RECURSIVE ChainEnd(_, _, _)
ChainEnd(code, h, d) ==
    LET k == NextAtOrAbove(code, h, d)
    IN IF code[k].ind = d /\ HdrKw(code[k]) \in {kw_elif, kw_else}
       THEN ChainEnd(code, k, d)
       ELSE k - 1

\* for_next with the target unbound when the loop ends, as a block scope would
for_next_scoped(code, h, iters, loc) ==
    LET it == iters[Len(iters)]
        target == tokens(code[h].text)[2]
    IN IF Len(it.rest) > 0
       THEN [more |-> TRUE,
             iters |-> [iters EXCEPT ![Len(iters)].rest = Tail(it.rest)],
             loc |-> Bind(loc, target, IntV(Head(it.rest)))]
       ELSE [more |-> FALSE, iters |-> SubSeq(iters, 1, Len(iters) - 1),
             loc |-> [n \in DOMAIN loc \ {target} |-> loc[n]]]

\* the for statement whose header is line h asks its iterator for the next
\* element: the target is bound to it, or the iterator is dropped; the
\* target keeps its last value
for_next(code, h, iters, loc) ==
    LET it == iters[Len(iters)]
    IN IF Len(it.rest) > 0
       THEN [more |-> TRUE,
             iters |-> [iters EXCEPT ![Len(iters)].rest = Tail(it.rest)],
             loc |-> Bind(loc, tokens(code[h].text)[2], IntV(Head(it.rest)))]
       ELSE [more |-> FALSE, iters |-> SubSeq(iters, 1, Len(iters) - 1), loc |-> loc]

\* where control goes when the statement of depth d that ends at line i is
\* done: to the next statement of its block, or, at the end of the block,
\* back into the for loop around it or past the if statement around it
RECURSIVE Flow(_, _, _, _, _)
Flow(code, i, d, iters, loc) ==
    IF code[i + 1].ind = d THEN [pc |-> i + 1, iters |-> iters, loc |-> loc]
    ELSE LET h == Enclosing(code, i, d)
         IN IF HdrKw(code[h]) = kw_for
            THEN LET f == for_next(code, h, iters, loc)
                 IN IF f.more THEN [pc |-> h + 1, iters |-> f.iters, loc |-> f.loc]
                    ELSE Flow(code, i, d - 1, f.iters, f.loc)
            ELSE Flow(code, ChainEnd(code, h, d - 1), d - 1, iters, loc)

RECURSIVE Concat(_)
Concat(ss) == IF Len(ss) = 0 THEN <<>> ELSE Head(ss) \o Concat(Tail(ss))

Raised(r, e) == [r EXCEPT !.st = "raised", !.exc = e]

Goto(r, f) == [r EXCEPT !.pc = f.pc, !.iters = f.iters, !.loc = f.loc]

\* append that puts the text at the front of the list
append_front(code, r, text) ==
    LET o == Lookup(n_out, r.loc, r.glob, LocalNames(code))
    IN IF o.exc # "" THEN Raised(r, o.exc)
       ELSE IF o.v.t # "outlist" THEN Raised(r, "AttributeError")
       ELSE Goto([r EXCEPT !.buf = <<text>> \o r.buf],
                 Flow(code, r.pc, code[r.pc].ind, r.iters, r.loc))

\* out.append(text)
append(code, r, text) ==
    LET o == Lookup(n_out, r.loc, r.glob, LocalNames(code))
    IN IF o.exc # "" THEN Raised(r, o.exc)
       ELSE IF o.v.t # "outlist" THEN Raised(r, "AttributeError")
       ELSE Goto([r EXCEPT !.buf = Append(r.buf, text)],
                 Flow(code, r.pc, code[r.pc].ind, r.iters, r.loc))

\* out.append(str(<expression>))
append_str(code, r) ==
    LET ts == tokens(code[r.pc].text)
        locals == LocalNames(code)
        o == Lookup(n_out, r.loc, r.glob, locals)
        e == IF ts = <<>> THEN Ok(NoneV) ELSE Eval(ts, r.loc, r.glob, locals)
    IN IF o.exc # "" THEN Raised(r, o.exc)
       ELSE IF o.v.t # "outlist" THEN Raised(r, "AttributeError")
       ELSE IF e.exc # "" THEN Raised(r, e.exc)
       ELSE append(code, r, IF ts = <<>> THEN <<>>
                            ELSE IF e.v.t = "outlist" THEN str_out(r.buf)
                            ELSE str(e.v))

\* a raw directive: an assignment, an expression or nothing
statement(code, r) ==
    LET ts == tokens(code[r.pc].text)
        locals == LocalNames(code)
        after == Flow(code, r.pc, code[r.pc].ind, r.iters, r.loc)
    IN IF ts = <<>> THEN Goto(r, after)
       ELSE IF IsAssign(ts)
       THEN LET e == Eval(SubSeq(ts, 3, Len(ts)), r.loc, r.glob, locals)
            IN IF e.exc # "" THEN Raised(r, e.exc)
               ELSE Goto(r, Flow(code, r.pc, code[r.pc].ind, r.iters, Bind(r.loc, ts[1], e.v)))
       ELSE LET e == Eval(ts, r.loc, r.glob, locals)
            IN IF e.exc # "" THEN Raised(r, e.exc) ELSE Goto(r, after)

\* if <cond>: and elif <cond>:
branch(code, r) ==
    LET c == code[r.pc]
        e == Eval(Tail(tokens(c.text)), r.loc, r.glob, LocalNames(code))
        k == NextAtOrAbove(code, r.pc, c.ind)
    IN IF e.exc # "" THEN Raised(r, e.exc)
       ELSE IF Truthy(e.v) THEN [r EXCEPT !.pc = r.pc + 1]
       ELSE IF code[k].ind = c.ind /\ HdrKw(code[k]) = kw_elif THEN [r EXCEPT !.pc = k]
       ELSE IF code[k].ind = c.ind /\ HdrKw(code[k]) = kw_else THEN [r EXCEPT !.pc = k + 1]
       ELSE Goto(r, Flow(code, k - 1, c.ind, r.iters, r.loc))

\* loop that leaves the first element in the iterator: it is served twice
loop_again(code, r) ==
    LET c == code[r.pc]
        ts == tokens(c.text)
        e == Eval(SubSeq(ts, 4, Len(ts)), r.loc, r.glob, LocalNames(code))
        k == NextAtOrAbove(code, r.pc, c.ind)
    IN IF e.exc # "" THEN Raised(r, e.exc)
       ELSE IF e.v.t # "list" THEN Raised(r, "TypeError")
       ELSE IF Len(e.v.l) = 0 THEN Goto(r, Flow(code, k - 1, c.ind, r.iters, r.loc))
       ELSE [r EXCEPT !.pc = r.pc + 1,
                      !.iters = Append(r.iters, [hdr |-> r.pc, rest |-> e.v.l]),
                      !.loc = Bind(r.loc, ts[2], IntV(Head(e.v.l)))]

\* for <name> in <iterable>:
loop(code, r) ==
    LET c == code[r.pc]
        ts == tokens(c.text)
        e == Eval(SubSeq(ts, 4, Len(ts)), r.loc, r.glob, LocalNames(code))
        k == NextAtOrAbove(code, r.pc, c.ind)
    IN IF e.exc # "" THEN Raised(r, e.exc)
       ELSE IF e.v.t # "list" THEN Raised(r, "TypeError")
       ELSE IF Len(e.v.l) = 0 THEN Goto(r, Flow(code, k - 1, c.ind, r.iters, r.loc))
       ELSE [r EXCEPT !.pc = r.pc + 1,
                      !.iters = Append(r.iters, [hdr |-> r.pc, rest |-> Tail(e.v.l)]),
                      !.loc = Bind(r.loc, ts[2], IntV(Head(e.v.l)))]

\* return "".join(out)
return(code, r) ==
    LET o == Lookup(n_out, r.loc, r.glob, LocalNames(code))
    IN IF o.exc # "" THEN Raised(r, o.exc)
       ELSE IF o.v.t \notin {"outlist", "list"} THEN Raised(r, "TypeError")
       ELSE IF o.v.t = "list" /\ o.v.l # <<>> THEN Raised(r, "TypeError")
       ELSE [r EXCEPT !.st = "done", !.res = IF o.v.t = "list" THEN <<>> ELSE Concat(r.buf)]

\* one generated line of _render
exec_line(code, r) ==
    LET c == code[r.pc]
        t == [r EXCEPT !.trace = Append(r.trace, [ci |-> r.pc, at |-> c.at, loc |-> r.loc,
                                                  outn |-> Len(r.buf)])]
    IN CASE c.kind = "init" ->
              Goto([t EXCEPT !.buf = <<>>],
                   Flow(code, t.pc, c.ind, t.iters, Bind(t.loc, n_out, OutV)))
         [] c.kind = "lit" -> append(code, t, c.text)
         [] c.kind = "litnl" -> append(code, t, c.text \o <<"\n">>)
         [] c.kind = "expr" -> append_str(code, t)
         [] c.kind = "raw" -> statement(code, t)
         [] c.kind = "hdr" /\ HdrKw(c) = kw_for -> loop(code, t)
         [] c.kind = "hdr" /\ HdrKw(c) = kw_else -> [t EXCEPT !.pc = t.pc + 1]
         [] c.kind = "hdr" -> branch(code, t)
         [] OTHER -> return(code, t)

\* a call of wrapper on its own, run to its end
Entered(kw, others) ==
    [Idle EXCEPT !.st = "run", !.kw = kw, !.pc = 2, !.glob = kwargs_as_globals(kw, others)]

RECURSIVE run_render(_, _)
run_render(code, r) == IF r.st # "run" THEN r ELSE run_render(code, exec_line(code, r))

wrapper(code, kw) == run_render(code, Entered(kw, <<>>))

\* the first n lines of a call on its own
RECURSIVE run_lines(_, _, _)
run_lines(code, r, n) == IF n = 0 THEN r ELSE run_lines(code, exec_line(code, r), n - 1)

\* compile_template as a whole: the generated lines and the exception
RECURSIVE compile_from(_, _, _)
compile_from(ls, k, e) ==
    IF e.error # NoError THEN e
    ELSE IF k > Len(ls) THEN finish(e.code, e.indent, e.stack)
    ELSE LET r == compile_line(ls[k], k, e.indent, e.stack)
         IN compile_from(ls, k + 1, Emitted(e.code \o r.code, r.indent, r.stack, r.error))

Prologue == <<emit_line(0, "def", <<>>, 0), emit_line(1, "init", <<>>, 0)>>

compile_template(ls) == compile_from(ls, 1, Emitted(Prologue, 1, <<>>, NoError))

(***************************************************************************)
(* The inputs: template lines, templates and keyword arguments.            *)
(***************************************************************************)
L_if_a == <<"$", "i", "f", " ", "a">>

L_if_n == <<"$", " ", "i", "f", " ", "n">>

L_if_c == <<"$", "i", "f", " ", "c">>

L_elif_b == <<"$", "e", "l", "i", "f", " ", "b">>

L_elif_c == <<"$", "e", "l", "i", "f", " ", "c">>

L_else == <<"$", "e", "l", "s", "e">>

L_endif == <<"$", "e", "n", "d", "i", "f">>

L_for == <<"$", "f", "o", "r", " ", "n", " ", "i", "n", " ", "s">>

L_for_x == <<"$", "f", "o", "r", " ", "x", " ", "i", "n", " ", "s">>

L_endfor == <<"$", " ", "e", "n", "d", "f", "o", "r">>

L_endif_x == <<"$", "e", "n", "d", "i", "f", " ", "x">>

L_endfor_x == <<"$", "e", "n", "d", "f", "o", "r", " ", " ", "x">>

L_raw_y == <<"$", "y", " ", "=", " ", "n">>

L_raw_x == <<"$", "x", " ", "=", " ", "x", " ", "+", " ", "1">>

L_raw_out == <<"$", "o", "u", "t", " ", "=", " ", "x">>

T_A == <<"A">>

T_B == <<"B">>

T_C == <<"C">>

T_n == <<"{", "{", "n", "}", "}">>

T_y == <<"{", "{", "y", "}", "}">>

T_x == <<"x", "{", "{", "x", "}", "}">>

T_out == <<"{", "{", "o", "u", "t", "}", "}">>

T_render == <<"{", "{", "_", "r", "e", "n", "d", "e", "r", "}", "}">>

T_two == <<"A", "{", "{", "a", "}", "}", "B", "{", "{", "b", "}", "}">>

T_adj == <<"{", "{", "a", "}", "}", "{", "{", "b", "}", "}", "C">>

T_none == <<"{", "{", "}", "}", "}">>

T_open == <<"{", "{", "a">>

T_open2 == <<"{", "{", "a", "}", "}", "{", "{">>

T_empty == <<>>

Vocabulary ==
    {L_if_a, L_elif_b, L_else, L_endif, L_for, L_endfor, L_endif_x, L_raw_y,
     T_A, T_n, T_open, T_open2, T_empty}

\* every template of at most MaxLines lines of Vocabulary
FreeTemplates == UNION {[1 .. k -> Vocabulary] : k \in 0 .. MaxLines}

\* well nested blocks: an if statement with one line in each branch, and a
\* for statement around a line, around an if statement, or around both
IfBlocks ==
    LET heads == {L_if_a, L_if_n, L_if_c}
        elifs == {L_elif_b, L_elif_c}
        firsts == {T_A, T_y}
    IN UNION {
         {<<i, f, L_endif>>, <<i, f, L_else, T_C, L_endif>>}
         \cup {<<i, f, e, T_B, L_endif>> : e \in elifs}
         \cup {<<i, f, e, T_B, L_else, T_C, L_endif>> : e \in elifs}
         : <<i, f>> \in heads \X firsts}

ForBodies ==
    {<<T_n>>, <<L_raw_y>>, <<T_n, L_raw_y>>, <<L_for_x, T_x, L_endfor>>}
    \cup IfBlocks
    \cup {b \o <<L_raw_y>> : b \in IfBlocks}

ForBlocks == {<<L_for>> \o b \o <<L_endfor>> : b \in ForBodies}

NestedTemplates ==
    {b \o p : b \in IfBlocks \cup ForBlocks, p \in {<<>>, <<T_n>>, <<T_y>>}}

\* blocks whose closing line has text after the keyword
TrailingTemplates ==
    {<<L_for, T_n, L_endfor_x>>, <<L_if_a, L_for, T_n, L_endfor_x, L_endif>>,
     <<L_for, L_if_a, T_A, L_endif_x, L_endfor>>}

\* text lines with several spans, alone and inside a block
SpanLines == {T_x, T_two, T_adj, T_none, T_empty}

SpanTemplates ==
    {<<t>> : t \in SpanLines} \cup {<<L_if_a, t, L_endif, u>> : t, u \in SpanLines}

\* raw directives that bind names, and spans that read them and the names
\* of the generated function
RawVocabulary == {L_raw_x, L_raw_y, L_raw_out, T_x, T_y, T_out, T_render}

RawTemplates == UNION {[1 .. k -> RawVocabulary] : k \in 1 .. MaxLines}

\* the templates rendered from two threads
ThreadedTemplates ==
    {<<T_A>>, <<T_n>>, <<L_if_a, T_A, L_else, T_C, L_endif>>,
     <<L_for, T_n, L_raw_y, L_endfor, T_y>>}

\* the list of k elements 0, 1, 0, 3, ...
ListOf(k) == [i \in 1 .. k |-> IF i % 2 = 1 THEN 0 ELSE i - 1]

n_a == <<"a">>

n_b == <<"b">>

n_s == <<"s">>

n_n == <<"n">>

n_x == <<"x">>

\* the keyword arguments of a call: a, b and s always, n only in some
Scope(a, b, k, withN) ==
    LET base == (n_a :> BoolV(a)) @@ (n_b :> BoolV(b)) @@ (n_s :> ListV(ListOf(k)))
                @@ (n_x :> IntV(5))
    IN IF withN THEN Bind(base, n_n, IntV(9)) ELSE base

\* keyword arguments named like the names of the generated function
ScopeInternal == Bind(Bind(Scope(TRUE, FALSE, 1, TRUE), n_out, IntV(3)), n_render, IntV(4))

Scopes ==
    {Scope(a, b, k, w) : a \in BOOLEAN, b \in BOOLEAN, k \in 0 .. MaxList, w \in BOOLEAN}
    \cup {ScopeInternal}

ThreadedScopes == {Scope(a, FALSE, k, w) : a \in BOOLEAN, k \in {MaxList}, w \in {FALSE}}
                  \cup {Scope(TRUE, TRUE, 1, TRUE)}

(***************************************************************************)
(* The state machine.                                                      *)
(***************************************************************************)
Init ==
    /\ threads \in BOOLEAN
    /\ lines \in IF threads THEN ThreadedTemplates ELSE FreeTemplates \cup NestedTemplates \cup RawTemplates
                      \cup TrailingTemplates \cup SpanTemplates
    /\ line_no = 0
    /\ out = Prologue
    /\ indent = 1
    /\ stack = <<>>
    /\ cstate = "scan"
    /\ error = NoError
    /\ calls = [c \in CallIds |-> Idle]
    /\ builds_data = <<>>
    /\ bot_status = <<>>
    /\ row = <<>>

\* one pass of the for loop over the lines
CompileLine ==
    /\ cstate = "scan"
    /\ line_no < Len(lines)
    /\ LET r == compile_line(lines[line_no + 1], line_no + 1, indent, stack)
       IN /\ line_no' = line_no + 1
          /\ out' = out \o r.code
          /\ indent' = r.indent
          /\ stack' = r.stack
          /\ error' = r.error
          /\ cstate' = IF r.error = NoError THEN "scan" ELSE "failed"
    /\ UNCHANGED <<lines, calls, threads>>
    /\ UNCHANGED status_vars

\* the end of compile_template
CompileEnd ==
    /\ cstate = "scan"
    /\ line_no = Len(lines)
    /\ LET r == finish(out, indent, stack)
       IN /\ out' = r.code
          /\ error' = r.error
          /\ cstate' = IF r.error = NoError THEN "compiled" ELSE "failed"
    /\ UNCHANGED <<lines, line_no, indent, stack, calls, threads>>
    /\ UNCHANGED status_vars

\* wrapper(**kw) is called: exec binds _render, and _render is entered
Call(c) ==
    /\ cstate = "compiled"
    /\ calls[c].st = "idle"
    /\ threads \/ c = MainThread
    /\ \E kw \in IF threads THEN ThreadedScopes ELSE Scopes :
          calls' = [calls EXCEPT ![c] = Entered(kw, calls)]
    /\ UNCHANGED <<lines, line_no, out, indent, stack, cstate, error, threads>>
    /\ UNCHANGED status_vars

\* _render runs one of its lines
Exec(c) ==
    /\ calls[c].st = "run"
    /\ calls' = [calls EXCEPT ![c] = exec_line(out, calls[c])]
    /\ UNCHANGED <<lines, line_no, out, indent, stack, cstate, error, threads>>
    /\ UNCHANGED status_vars

\* the caller has taken the result, or the exception, of the call
Return(c) ==
    /\ calls[c].st \in {"done", "raised"}
    /\ calls' = [calls EXCEPT ![c] = Idle]
    /\ UNCHANGED <<lines, line_no, out, indent, stack, cstate, error, threads>>
    /\ UNCHANGED status_vars

Next ==
    \/ CompileLine
    \/ CompileEnd
    \/ \E c \in CallIds : Call(c) \/ Exec(c) \/ Return(c)

Spec == Init /\ [][Next]_vars

(***************************************************************************)
(* The status of a bot.  None is the empty sequence and a value x that may *)
(* be None is <<x>>.  A build of the API is a record with the fields       *)
(* number, started_at, results and complete_at.                            *)
(***************************************************************************)
None == <<>>

Some(x) == <<x>>

BuildInfo(id, started_at, result, finished_at) ==
    [id |-> id, started_at |-> started_at, result |-> result, finished_at |-> finished_at]

BotStatus(in_progress_build, last_completed_build) ==
    [in_progress_build |-> in_progress_build, last_completed_build |-> last_completed_build]

build_data_to_build_info(build_data) ==
    LET results == build_data.results
        result == IF results = None THEN "in_progress"
                  ELSE IF results[1] = 0 \/ results[1] = 1 THEN "pass"
                  ELSE IF results[1] = 2 THEN "fail"
                  ELSE "other"
    IN BuildInfo(build_data.number, build_data.started_at, result, build_data.complete_at)

get_bot_status(data) ==
    IF Len(data) = 0 THEN BotStatus(None, None)
    ELSE LET build_info_0 == build_data_to_build_info(data[1])
         IN IF Len(data) = 1
            THEN IF build_info_0.result = "in_progress"
                 THEN BotStatus(Some(build_info_0), None)
                 ELSE BotStatus(None, Some(build_info_0))
            ELSE LET build_info_1 == build_data_to_build_info(data[2])
                 IN IF build_info_0.result = "in_progress"
                    THEN BotStatus(Some(build_info_0), Some(build_info_1))
                    ELSE BotStatus(None, Some(build_info_0))

\* the two cells of the bot's row: the number of the build in progress, and
\* the class and the duration of the last completed build; the subtraction
\* raises TypeError when finished_at is None
render_row(status) ==
    LET running == IF status.in_progress_build # None
                   THEN Some(status.in_progress_build[1].id) ELSE None
    IN IF status.last_completed_build = None
       THEN [exc |-> "", in_progress |-> running, class |-> None, seconds |-> None]
       ELSE LET b == status.last_completed_build[1]
            IN IF b.finished_at = None
               THEN [exc |-> "TypeError", in_progress |-> running, class |-> None,
                     seconds |-> None]
               ELSE [exc |-> "", in_progress |-> running, class |-> Some(b.result),
                     seconds |-> Some(b.finished_at[1] - b.started_at)]

\* the builds a builder can report: running (no results, no completion
\* time) or complete, in any combination
BuildsData ==
    LET build == [results : {None} \cup {Some(r) : r \in 0 .. MaxResult},
                  complete_at : {None, Some(25)}]
        numbered(l) == [i \in 1 .. Len(l) |->
                          [number |-> 40 + Len(l) - i, started_at |-> 10 + Len(l) - i,
                           results |-> l[i].results, complete_at |-> l[i].complete_at]]
    IN {numbered(l) : l \in UNION {[1 .. n -> build] : n \in 0 .. MaxBuilds}}

StatusInit ==
    /\ builds_data \in BuildsData
    /\ bot_status = None
    /\ row = None
    /\ lines = <<>>
    /\ line_no = 0
    /\ out = Prologue
    /\ indent = 1
    /\ stack = <<>>
    /\ cstate = "scan"
    /\ error = NoError
    /\ calls = [c \in CallIds |-> Idle]
    /\ threads = FALSE

GetBotStatus ==
    /\ bot_status = None
    /\ bot_status' = Some(get_bot_status(builds_data))
    /\ UNCHANGED <<builds_data, row>>
    /\ UNCHANGED template_vars

RenderRow ==
    /\ bot_status # None
    /\ row = None
    /\ row' = Some(render_row(bot_status[1]))
    /\ UNCHANGED <<builds_data, bot_status>>
    /\ UNCHANGED template_vars

StatusNext == GetBotStatus \/ RenderRow

StatusSpec == StatusInit /\ [][StatusNext]_vars

(***************************************************************************)
(* The template, read directly: which lines are directives, which blocks   *)
(* they open and close.                                                    *)
(***************************************************************************)
\* the keyword of template line k; the empty string for a text line
Kw(k) == IF startswith(lines[k], "$") THEN keyword_of(lines[k]) ELSE <<>>

IsText(k) == ~startswith(lines[k], "$")

IsOpener(k) == Kw(k) \in {kw_if, kw_for}

IsCloser(k) == Kw(k) \in {kw_endif, kw_endfor}

\* openers minus closers among the lines i+1 .. j
Balance(i, j) ==
    Cardinality({o \in (i + 1) .. j : IsOpener(o)}) - Cardinality({c \in (i + 1) .. j : IsCloser(c)})

\* the opener at line i has no closer among the lines up to n
OpenAt(i, n) == IsOpener(i) /\ \A j \in (i + 1) .. n : Balance(i, j) >= 0

\* the kinds of the blocks open after n lines, outermost first
OpenBlocks(n) ==
    LET open == {i \in 1 .. n : OpenAt(i, n)}
    IN [r \in 1 .. Cardinality(open) |->
          Kw(CHOOSE i \in open : Cardinality({j \in open : j <= i}) = r)]

\* line k is the next line compile_template scans
Scanning(k) == cstate = "scan" /\ line_no + 1 = k /\ k <= Len(lines)

TopIs(kw) == Len(stack) > 0 /\ stack[Len(stack)] = kw

\* a start marker at 0-based position i of the line with no end marker after it
Unterminated(line) ==
    \E i \in 0 .. (Len(line) - 2) :
        /\ line[i + 1] = "{" /\ line[i + 2] = "{"
        /\ ~\E j \in (i + 2) .. (Len(line) - 2) : line[j + 1] = "}" /\ line[j + 2] = "}"

(***************************************************************************)
(* A call's trace, read against the blocks of the template.                *)
(***************************************************************************)
\* the line that closes the block opened at line i
EndOf(i) ==
    CHOOSE j \in (i + 1) .. Len(lines) :
        Balance(i, j) = -1 /\ \A m \in (i + 1) .. (j - 1) : Balance(i, m) >= 0

Inside(i) == (i + 1) .. (EndOf(i) - 1)

\* the if line i and the elif and else lines of its own block
BranchHeaders(i) ==
    {i} \cup {j \in Inside(i) : Kw(j) \in {kw_elif, kw_else} /\ Balance(i, j) = 0}

NextHeader(i, h) ==
    LET later == {j \in BranchHeaders(i) \cup {EndOf(i)} : j > h}
    IN CHOOSE j \in later : \A m \in later : j <= m

BranchBody(i, h) == (h + 1) .. (NextHeader(i, h) - 1)

\* the positions of T at which the header of a block of the given kind ran
Visits(T, kw) == {p \in 1 .. Len(T) : T[p].at >= 1 /\ Kw(T[p].at) = kw}

\* the last position of the visit of block i that starts at position p: the
\* entries after p up to it are lines inside the block
VisitEnd(T, p, i) ==
    CHOOSE q \in p .. Len(T) :
        /\ \A m \in (p + 1) .. q : T[m].at \in Inside(i)
        /\ q = Len(T) \/ T[q + 1].at \notin Inside(i)

\* the condition of the if or elif line h, evaluated with the locals loc
CondRes(r, h, loc) == Eval(Tail(tokens(pycmd_of(lines[h]))), loc, r.glob, LocalNames(out))

Holds(r, h, loc) ==
    \/ Kw(h) = kw_else
    \/ CondRes(r, h, loc).exc = "" /\ Truthy(CondRes(r, h, loc).v)

Stops(r, h, loc) == Kw(h) = kw_else \/ CondRes(r, h, loc).exc # "" \/ Truthy(CondRes(r, h, loc).v)

\* the branches whose turn comes: no branch before them holds or fails
Tried(r, i, loc) ==
    {g \in BranchHeaders(i) : \A f \in BranchHeaders(i) : f < g => ~Stops(r, f, loc)}

\* the first branch, in source order, that holds
Selected(r, i, loc) == {h \in Tried(r, i, loc) : Holds(r, h, loc)}

ForVar(i) == tokens(pycmd_of(lines[i]))[2]

ForIter(r, i, loc) ==
    LET ts == tokens(pycmd_of(lines[i]))
    IN Eval(SubSeq(ts, 4, Len(ts)), loc, r.glob, LocalNames(out))

\* the positions inside a visit of the for block at which an iteration begins
Starts(T, p, e) == {q \in (p + 1) .. e : T[q].ci = T[p].ci + 1}

IsRawAssign(j) ==
    /\ startswith(lines[j], "$")
    /\ Kw(j) \notin {kw_if, kw_for, kw_elif, kw_else, kw_endif, kw_endfor}
    /\ IsAssign(tokens(pycmd_of(lines[j])))

\* template line j binds the name
Binds(j, name) ==
    \/ Kw(j) = kw_for /\ ForVar(j) = name
    \/ IsRawAssign(j) /\ tokens(pycmd_of(lines[j]))[1] = name

(***************************************************************************)
(* C1.  In every run of an if / elif / else / endif block, only the body   *)
(* of the first branch in source order whose condition is true (else       *)
(* counts as true) executes, and it does execute; the conditions of the    *)
(* branches after it are not evaluated; when no condition is true and      *)
(* there is no else, nothing of the block executes and no error is raised. *)
(***************************************************************************)
C1_FirstTrueBranch ==
    cstate = "compiled" =>
      \A c \in CallIds :
        LET r == calls[c]
            T == r.trace
        IN \A p \in Visits(T, kw_if) :
             LET i == T[p].at
                 e == VisitEnd(T, p, i)
                 tried == Tried(r, i, T[p].loc)
                 sel == Selected(r, i, T[p].loc)
             IN /\ \A q \in (p + 1) .. e :
                      T[q].at \in (tried \ {i}) \cup UNION {BranchBody(i, h) : h \in sel}
                /\ (r.st = "done" \/ e < Len(T)) =>
                      \A h \in sel : \E q \in (p + 1) .. e : T[q].at = h + 1
                /\ (sel = {} /\ \A g \in BranchHeaders(i) : ~Stops(r, g, T[p].loc)) =>
                      /\ \A q \in (p + 1) .. e : T[q].at \in BranchHeaders(i)
                      /\ ~(r.st = "raised" /\ e = Len(T))

\* the first branch was taken, and the elif after it, whose condition names
\* nothing defined, raised nothing
C1_Witness ==
    \E c \in CallIds :
        /\ lines = <<L_if_a, T_A, L_elif_c, T_B, L_else, T_C, L_endif>>
        /\ calls[c].st = "done"
        /\ calls[c].kw[n_a] = BoolV(TRUE)
        /\ calls[c].res = <<"A", "\n">>

(***************************************************************************)
(* C2.  In every run of a for block the iterable is evaluated once and the *)
(* body executes once per element, in order, with the loop variable bound  *)
(* to that element; over an empty iterable the body does not execute and   *)
(* nothing is added to the output.                                         *)
(***************************************************************************)
C2_OncePerElement ==
    cstate = "compiled" =>
      \A c \in CallIds :
        LET r == calls[c]
            T == r.trace
        IN \A p \in Visits(T, kw_for) :
             LET i == T[p].at
                 e == VisitEnd(T, p, i)
                 v == ForIter(r, i, T[p].loc)
                 starts == Starts(T, p, e)
             IN (v.exc = "" /\ v.v.t = "list") =>
                  /\ Cardinality(starts) <= Len(v.v.l)
                  /\ \A q \in starts :
                        /\ ForVar(i) \in DOMAIN T[q].loc
                        /\ T[q].loc[ForVar(i)]
                             = IntV(v.v.l[Cardinality({m \in starts : m <= q})])
                  /\ (r.st = "done" \/ e < Len(T)) => Cardinality(starts) = Len(v.v.l)
                  /\ Len(v.v.l) = 0 =>
                        /\ e = p
                        /\ p < Len(T) => T[p + 1].outn = T[p].outn

\* a loop over the list 0, 1 wrote one line for each element, in order
C2_Witness ==
    \E c \in CallIds :
        /\ lines = <<L_for, T_n, L_endfor>>
        /\ calls[c].st = "done"
        /\ calls[c].kw[n_s] = ListV(<<0, 1>>)
        /\ calls[c].res = <<"0", "\n", "1", "\n">>

(***************************************************************************)
(* C3.  As claimed: names bound inside a for block do not leak.  After     *)
(* endfor the loop variable is bound as it was before the loop, and a name *)
(* that a raw directive of the body binds is, at the start of the next     *)
(* iteration and after the loop, bound as it was before the loop.          *)
(***************************************************************************)
SameBinding(name, before, after) ==
    IF name \in DOMAIN before
    THEN name \in DOMAIN after /\ after[name] = before[name]
    ELSE name \notin DOMAIN after

C4_CallsIndependent ==
    cstate = "compiled" =>
      /\ out = compile_template(lines).code
      /\ \A c \in CallIds :
            calls[c].st # "idle" =>
              calls[c] = run_lines(out, Entered(calls[c].kw, <<>>), Len(calls[c].trace))

\* two calls with different keyword arguments are both under way, each with
\* output of its own
C4_Witness ==
    /\ threads
    /\ \A c \in CallIds : calls[c].st = "run" /\ Len(calls[c].trace) >= 2
    /\ \E c, d \in CallIds : calls[c].kw # calls[d].kw /\ calls[c].buf # calls[d].buf

(***************************************************************************)
(* C5.  A line k whose keyword is else or elif, scanned while the block    *)
(* stack is empty or has for on top, makes compile_template fail with a    *)
(* ValueError "Line k: ...".                                               *)
(***************************************************************************)
C5_BranchOutsideIf ==
    [][\A k \in 1 .. Len(lines) :
          (Scanning(k) /\ Kw(k) \in {kw_elif, kw_else} /\ (stack = <<>> \/ TopIs(kw_for)))
          => (cstate' = "failed" /\ error'.type = "ValueError" /\ error'.line = k)]_vars

(***************************************************************************)
(* C6.  A line k whose keyword is endif or endfor, scanned while the block *)
(* stack is empty, makes compile_template fail with a syntax error that    *)
(* carries the line number k.                                              *)
(***************************************************************************)
C6_CloseNothingOpen ==
    [][\A k \in 1 .. Len(lines) :
          (Scanning(k) /\ IsCloser(k) /\ stack = <<>>)
          => (cstate' = "failed" /\ error'.type = "ValueError" /\ error'.line = k)]_vars

(***************************************************************************)
(* C7.  A line k holding endif while for is on top of the block stack, or  *)
(* endfor while if is on top, makes compile_template fail with the         *)
(* ValueError "Line k: Expected end<top>, ...": it names the closing line, *)
(* whatever the depth.                                                     *)
(***************************************************************************)
C7_MismatchedClose ==
    [][\A k \in 1 .. Len(lines) :
          (Scanning(k) /\ (\/ Kw(k) = kw_endif /\ TopIs(kw_for)
                           \/ Kw(k) = kw_endfor /\ TopIs(kw_if)))
          => (/\ cstate' = "failed"
              /\ error' = ValueError(k, "Expected end", stack[Len(stack)]))]_vars

\* an endfor met an if inside another block, and compilation failed on it
C7_Witness ==
    /\ cstate = "failed"
    /\ error.msg = "Expected end"
    /\ error.line = line_no
    /\ line_no = 3
    /\ Kw(1) = kw_for /\ Kw(2) = kw_if /\ Kw(3) = kw_endfor
    /\ Len(stack) = 1

(***************************************************************************)
(* C8.  A text line k with a start marker that no end marker follows on    *)
(* the line makes compile_template fail with a ValueError naming line k,   *)
(* also when earlier spans of the line are terminated.                     *)
(***************************************************************************)
C8_UnterminatedSpan ==
    [][\A k \in 1 .. Len(lines) :
          (Scanning(k) /\ IsText(k) /\ Unterminated(lines[k]))
          => (/\ cstate' = "failed"
              /\ error' = ValueError(k, "Couldn't find matching }", <<>>))]_vars

\* the line with a terminated span before the open one failed, inside a block
C8_Witness ==
    /\ cstate = "failed"
    /\ error.msg = "Couldn't find matching }"
    /\ error.line = line_no
    /\ line_no >= 2
    /\ lines[line_no] = T_open2

C10_StackIsOpenBlocks ==
    /\ stack = OpenBlocks(line_no)
    /\ cstate = "compiled" => (stack = <<>> /\ line_no = Len(lines))

\* a close popped one of two open blocks, and a branch left the rest alone
C10_Witness ==
    /\ cstate = "scan"
    /\ line_no = 3
    /\ Kw(1) = kw_if /\ Kw(2) = kw_for /\ Kw(3) = kw_endfor
    /\ stack = <<kw_if>>

(***************************************************************************)
(* C11.  A template in which no line is a directive and no line holds a    *)
(* start marker compiles, and every call of it, whatever its keyword       *)
(* arguments, raises nothing and returns the lines in order, each followed *)
(* by one newline.                                                         *)
(***************************************************************************)
TextOnly(ls) ==
    \A k \in 1 .. Len(ls) :
        /\ ~(Len(ls[k]) > 0 /\ ls[k][1] = "$")
        /\ ~\E i \in 1 .. (Len(ls[k]) - 1) : ls[k][i] = "{" /\ ls[k][i + 1] = "{"

RECURSIVE LinesWithNewlines(_)
LinesWithNewlines(ls) ==
    IF Len(ls) = 0 THEN <<>> ELSE Head(ls) \o <<"\n">> \o LinesWithNewlines(Tail(ls))

C11_TextReproduced ==
    TextOnly(lines) =>
      /\ cstate # "failed"
      /\ \A c \in CallIds :
            /\ calls[c].st # "raised"
            /\ calls[c].st = "done" => calls[c].res = LinesWithNewlines(lines)

\* three lines, the second empty, rendered with keyword arguments that name
\* out and _render
C11_Witness ==
    \E c \in CallIds :
        /\ lines = <<T_A, T_empty, T_A>>
        /\ calls[c].st = "done"
        /\ calls[c].kw = ScopeInternal
        /\ calls[c].res = <<"A", "\n", "\n", "A", "\n">>

(***************************************************************************)
(* C12.  As claimed: a raw directive that binds a name x takes effect at   *)
(* its position.  Every line executed in a call reads x as the value the   *)
(* raw directives executed before it have given it, and, when none has yet *)
(* (also when the line is the directive itself, as in x = x + 1), as the   *)
(* value the caller supplied for x.  (out, which the generated function    *)
(* binds itself, is left to C17.)                                          *)
(***************************************************************************)
\* the names the raw directives of the template assign
RawTargets ==
    {tokens(pycmd_of(lines[j]))[1] : j \in {i \in 1 .. Len(lines) : IsRawAssign(i)}}

\* the names the generated line c reads
ReadNames(c) ==
    LET ts == tokens(c.text)
        ex == CASE c.kind = "expr" -> ts
                [] c.kind = "raw" /\ IsAssign(ts) -> SubSeq(ts, 3, Len(ts))
                [] c.kind = "raw" -> ts
                [] c.kind = "hdr" /\ HdrKw(c) = kw_for -> SubSeq(ts, 4, Len(ts))
                [] c.kind = "hdr" /\ HdrKw(c) \in {kw_if, kw_elif} -> Tail(ts)
                [] OTHER -> <<>>
    IN {ex[i] : i \in {j \in 1 .. Len(ex) : IsName(ex[j])}}

\* x in the scope the caller supplied, updated by the bindings made so far
ScopeValue(x, loc, kw) ==
    IF x \in DOMAIN loc THEN Ok(loc[x])
    ELSE IF x \in DOMAIN kw THEN Ok(kw[x])
    ELSE Raise("NameError")

C12_RawTakesEffectInOrder ==
    cstate = "compiled" =>
      \A c \in CallIds :
        LET r == calls[c]
            T == r.trace
        IN \A p \in 1 .. Len(T) :
             \A x \in (RawTargets \ {n_out}) \cap ReadNames(out[T[p].ci]) :
                Lookup(x, T[p].loc, r.glob, LocalNames(out)) = ScopeValue(x, T[p].loc, r.kw)

(***************************************************************************)
(* C13.  A line k whose keyword is endif or endfor and which holds more    *)
(* than the keyword, met while the block on top of the stack is of the     *)
(* keyword's kind, makes compile_template fail with the ValueError         *)
(* "Line k: Unexpected text after <keyword>"; no program is returned.      *)
(***************************************************************************)
C13_TextAfterClose ==
    [][\A k \in 1 .. Len(lines) :
          (/\ Scanning(k)
           /\ Kw(k) \in {kw_endif, kw_endfor}
           /\ pycmd_of(lines[k]) # Kw(k)
           /\ TopIs(drop3(Kw(k))))
          => (/\ cstate' = "failed"
              /\ error' = ValueError(k, "Unexpected text after", Kw(k))
              /\ out' = out)]_vars

\* an endfor followed by text closed the inner block of two, and compilation
\* failed on its line
C13_Witness ==
    /\ cstate = "failed"
    /\ error = ValueError(4, "Unexpected text after", kw_endfor)
    /\ lines = <<L_if_a, L_for, T_n, L_endfor_x, L_endif>>
    /\ line_no = 4

(***************************************************************************)
(* C14.  As claimed: when every line has been scanned without an error and *)
(* the block stack is empty after the last line, compile_template returns  *)
(* the render function; it fails in no other way, whatever the bodies of   *)
(* the blocks and the order of their elif and else lines.                  *)
(***************************************************************************)
C14_CleanScanYieldsProgram ==
    [][(/\ cstate = "scan"
        /\ line_no = Len(lines)
        /\ error = NoError
        /\ stack = <<>>)
       => (cstate' = "compiled" /\ error' = NoError)]_vars

(***************************************************************************)
(* C15.  For a text line whose spans are all terminated, compile_template  *)
(* emits, left to right, the literal before each span when it is not empty *)
(* and then the span's expression, and last one literal holding the text   *)
(* after the last span and the newline: put back together the emitted      *)
(* lines are the source line, the one newline is at the end, also when the *)
(* line is empty or ends with an end marker.                               *)
(***************************************************************************)
HasMarker(t, c) == \E i \in 1 .. (Len(t) - 1) : t[i] = c /\ t[i + 1] = c

\* the part of the source line that an emitted line came from
SourceOf(c) == IF c.kind = "expr" THEN <<"{", "{">> \o c.text \o <<"}", "}">> ELSE c.text

RECURSIVE SourceOfAll(_)
SourceOfAll(code) ==
    IF Len(code) = 0 THEN <<>> ELSE SourceOf(Head(code)) \o SourceOfAll(Tail(code))

\* the lines emitted by the step just taken
NewLines(before, after) == SubSeq(after, Len(before) + 1, Len(after))

SpansInOrder(code, line) ==
    LET n == Len(code)
    IN /\ n >= 1
       /\ SourceOfAll(code) = line
       /\ \A i \in 1 .. n : code[i].kind = "litnl" <=> i = n
       /\ ~HasMarker(code[n].text, "{")
       /\ \A i \in 1 .. (n - 1) :
             /\ code[i].kind \in {"lit", "expr"}
             /\ code[i].kind = "lit" =>
                   /\ code[i].text # <<>>
                   /\ ~HasMarker(code[i].text, "{")
                   /\ code[i + 1].kind = "expr"
             /\ code[i].kind = "expr" => ~HasMarker(code[i].text \o <<"}">>, "}")

C15_SpansInOrder ==
    [][\A k \in 1 .. Len(lines) :
          (Scanning(k) /\ IsText(k) /\ ~Unterminated(lines[k]))
          => (/\ error' = NoError
              /\ SpansInOrder(NewLines(out, out'), lines[k])
              /\ \A i \in 1 .. Len(NewLines(out, out')) : NewLines(out, out')[i].at = k)]_vars

\* two spans with a literal before each, the second at the end of the line:
\* five lines were emitted, and the render ends with the one newline
C15_Witness ==
    \E c \in CallIds :
        /\ lines = <<T_two>>
        /\ Len(out) = 8
        /\ out[7].kind = "litnl" /\ out[7].text = <<>>
        /\ calls[c].st = "done"
        /\ calls[c].kw[n_a] = BoolV(TRUE) /\ calls[c].kw[n_b] = BoolV(FALSE)
        /\ calls[c].res = <<"A", "T", "r", "u", "e", "B", "F", "a", "l", "s", "e", "\n">>

(***************************************************************************)
(* C16.  After every line scanned without error the indent is one more     *)
(* than the length of the block stack.  A literal, an expression and a raw *)
(* directive are emitted one deeper than the stack is long, an if or for   *)
(* header at the depth held before its push, and an elif or else header as *)
(* deep as the stack is long, which is the depth of its if header.         *)
(***************************************************************************)
C16_IndentIsDepth ==
    [][\A k \in 1 .. Len(lines) :
          (Scanning(k) /\ line_no' = k /\ error' = NoError)
          => (/\ indent = 1 + Len(stack)
              /\ indent' = 1 + Len(stack')
              /\ \A i \in 1 .. Len(NewLines(out, out')) :
                    LET c == NewLines(out, out')[i]
                    IN /\ c.kind \in {"lit", "litnl", "expr", "raw"} =>
                             c.ind = 1 + Len(stack) /\ stack' = stack
                       /\ (c.kind = "hdr" /\ Kw(k) \in {kw_if, kw_for}) =>
                             c.ind = indent /\ Len(stack') = Len(stack) + 1
                       /\ (c.kind = "hdr" /\ Kw(k) \in {kw_elif, kw_else}) =>
                             c.ind = Len(stack) /\ stack' = stack)]_vars

\* inside a for block, the else of an if block was emitted at the depth of
\* the if header, and the indent is back at three with two blocks open
C16_Witness ==
    /\ cstate = "scan"
    /\ lines = <<L_for, L_if_a, T_A, L_else, T_C, L_endif, L_endfor>>
    /\ line_no = 4
    /\ stack = <<kw_for, kw_if>>
    /\ indent = 3
    /\ out[Len(out)].kind = "hdr" /\ out[Len(out)].ind = 2
    /\ out[Len(out) - 2].kind = "hdr" /\ out[Len(out) - 2].ind = 2

(***************************************************************************)
(* C17.  As claimed: the names of the generated function are out of the    *)
(* template's reach.  A span {{n}}, n a keyword argument of the call that  *)
(* no line of the template binds (out and _render included), evaluates to  *)
(* the caller's value of n; no line evaluates a name to the output buffer, *)
(* and the local out is bound to the buffer from the first line to the     *)
(* last.                                                                   *)
(***************************************************************************)
\* the names the lines of the template bind
TemplateBound ==
    RawTargets \cup {ForVar(j) : j \in {i \in 1 .. Len(lines) : Kw(i) = kw_for}}

C17_InternalNamesHidden ==
    cstate = "compiled" =>
      \A c \in CallIds :
        LET r == calls[c]
            T == r.trace
        IN \A p \in 1 .. Len(T) :
             LET g == out[T[p].ci]
             IN /\ \A n \in (ReadNames(g) \cap DOMAIN r.kw) \ TemplateBound :
                      Lookup(n, T[p].loc, r.glob, LocalNames(out)) = Ok(r.kw[n])
                /\ \A n \in ReadNames(g) :
                      Lookup(n, T[p].loc, r.glob, LocalNames(out)) # Ok(OutV)
                /\ n_out \in DOMAIN T[p].loc => T[p].loc[n_out] = OutV

(***************************************************************************)
(* C18.  As claimed: in the status get_bot_status returns,                 *)
(* in_progress_build is present exactly when the newest build has no       *)
(* results yet, and then has result in_progress; last_completed_build,     *)
(* when present, never has result in_progress; with no builds both are     *)
(* absent.                                                                 *)
(***************************************************************************)
C18_StatusFields ==
    bot_status # None =>
      LET st == bot_status[1]
      IN /\ st.in_progress_build # None
              <=> (Len(builds_data) > 0 /\ builds_data[1].results = None)
         /\ st.in_progress_build # None => st.in_progress_build[1].result = "in_progress"
         /\ st.last_completed_build # None =>
               st.last_completed_build[1].result # "in_progress"
         /\ Len(builds_data) = 0 =>
               st.in_progress_build = None /\ st.last_completed_build = None

====
